---- MODULE Spec2Model ----
(***************************************************************************)
(* Model of the job-tracker data store (src/src/database.py), its schema   *)
(* (src/src/models.py) and the tool dispatcher (src/src/server.py).        *)
(*                                                                         *)
(* The store is a PostgreSQL database reached through SQLAlchemy sessions  *)
(* (sessionmaker(autocommit=False, autoflush=False)).  A table is a        *)
(* sequence of rows in insertion order.  Text columns whose content is     *)
(* concatenated by the code (notes) are sequences of characters; names     *)
(* and statuses, which the code only compares, are strings.  Company names *)
(* and job titles, which the search matches against patterns, are         *)
(* sequences of characters.  Columns that no operation reads or writes     *)
(* after the insert (job_url, location, recruiter_*, ...) are left out.    *)
(***************************************************************************)
EXTENDS Integers, Sequences, FiniteSets, TLC

\* ------------------------------------------------------------------ bounds
MaxResumes == 2
MaxApps == 1
MaxNotesLen == 31
NumProcs == 2
MaxRows == 2

\* ------------------------------------------------------- program constants
\* name = Column(String(100), nullable=False, unique=True)
MaxNameLen == 100
\* status = Column(String(50), default="applied")
MaxStatusLen == 50

\* ------------------------------------------------------------ input values
\* Python None, for optional arguments and nullable columns.
None == "<None>"
\* A resume name of 101 characters: one more than String(100) holds.
LongName ==
  "xxxxxxxxxxxxxxxxxxxxxxxxxxxxxxxxxxxxxxxxxxxxxxxxxxxxxxxxxxxxxxxxxxxxxxxxxxxxxxxxxxxxxxxxxxxxxxxxxxxxx"
ShortNames == {"default", "A", "B"}
ResumeNames == ShortNames \cup {LongName}
\* resume_version argument of add_job_application: absent, empty, or a name.
ResumeArgs == ResumeNames \cup {None, ""}
Statuses == {"applied", "interviewing"}
\* datetime.now().strftime('%Y-%m-%d'): the day of the call, ten characters.
Dates == {<<"2", "0", "2", "5", "-", "0", "1", "-", "0", "1">>}
\* Python None where a text (a sequence of characters) is expected.
NoneText == <<"<None>">>
\* notes given to add_job_application: None, or a text.
InitialNotes == {NoneText, <<>>, <<"f">>}
\* notes given to update_application_status (arguments.get("notes", "")).
NoteArgs == {<<>>, <<"x">>, <<"y">>}
\* NULL in an integer column; ids start at 1.
NULL == 0
\* A status of 51 characters: one more than String(50) holds.
LongStatus == "sssssssssssssssssssssssssssssssssssssssssssssssssss"
\* datetime.utcnow() at the moment of a call, as a number.
Times == {1, 2}
\* application_date, as a day number.
AppDates == {1, 2}
\* company_name and job_title of the applications that sequential calls create.
Company == <<"T", "c">>
JobTitle == <<"D", "e", "v">>
\* The tables of Base.metadata.
AllTables == {"resume_versions", "job_applications"}

VARIABLES
  resumes,        \* table resume_versions, committed rows
  apps,           \* table job_applications, committed rows
  nextResumeId,   \* next value of resume_versions.id
  nextAppId,      \* next value of job_applications.id
  last,           \* the last call: its arguments, its outcome, the store before it
  txn,            \* per concurrent caller: the call in progress and its open unit of work
  read,           \* what the last concurrent read of resume_versions observed
  sessions,       \* number of sessions opened by get_session() and not yet closed
  tables          \* the tables that exist in the database

vars == <<resumes, apps, nextResumeId, nextAppId, last, txn, read, sessions, tables>>

\* ------------------------------------------------------------ Python values
\* bool(x) for an Optional[str]: None and "" are false.
Truthy(s) == s # None /\ s # ""
\* The same for a text held as a sequence of characters.
TruthyText(t) == t # NoneText /\ t # <<>>

\* ------------------------------------------------------------ store helpers
\* session.rollback(): the statements of the unit of work are undone.
Rollback(committed, working) == committed
\* session.commit(): the statements of the unit of work become the store.
Commit(committed, working) == working

\* Faulty variant: the bulk UPDATE changes no row.
ClearDefaults_Keeps(rows) == rows
\* session.query(ResumeVersion).update({"is_default": False})
ClearDefaults(rows) == [i \in DOMAIN rows |-> [rows[i] EXCEPT !.is_default = FALSE]]

\* session.query(ResumeVersion).filter(ResumeVersion.name == name): the matches.
RowsNamed(rows, name) == {rows[i] : i \in {j \in DOMAIN rows : rows[j].name = name}}
\* session.query(ResumeVersion).filter(ResumeVersion.is_default == True): the matches.
RowsDefault(rows) == {rows[i] : i \in {j \in DOMAIN rows : rows[j].is_default}}
\* UPDATE resume_versions SET is_default = true WHERE id = <id>
SetDefaultById(rows, id) ==
  [i \in DOMAIN rows |-> IF rows[i].id = id THEN [rows[i] EXCEPT !.is_default = TRUE]
                         ELSE rows[i]]

\* DatabaseManager.get_resume_by_name: .first() of the matches (the name is unique).
get_resume_by_name(name) == RowsNamed(resumes, name)
\* DatabaseManager.get_default_resume: .first() of the default rows; which one is
\* returned when there are several is the engine's choice.
get_default_resume == RowsDefault(resumes)

NumDefaults(rows) == Cardinality({i \in DOMAIN rows : rows[i].is_default})
Names(rows) == {rows[i].name : i \in DOMAIN rows}

\* ------------------------------------------------------------------ sessions
\* DatabaseManager.get_session(): one more open session.
get_session(n) == n + 1
\* Faulty variant: close() leaves the session open.
SessionClose_Leaks(n) == n
\* session.close() in the finally clause of an operation.
SessionClose(n) == n - 1
\* A whole read operation of the store (get_resume_by_name, get_default_resume,
\* get_application_with_resume, ...): session = self.get_session(); try:
\* return query; finally: session.close().
WithSession(n) == SessionClose(get_session(n))

\* ------------------------------------------------------- resume operations
\* What the last call was and did.  pre and preApps are the two tables before
\* the call; id is the row the call created or touched (NULL if none);
\* preNotes and preStatus are the touched application's notes and status
\* before the call; args are the arguments of a query, rows what it
\* returned and selected the list it selected before any limit.
Call(op, via, name, flag, result, id, pre) ==
  [op |-> op, via |-> via, name |-> name, flag |-> flag, result |-> result,
   id |-> id, pre |-> pre, preApps |-> apps, preNotes |-> NoneText,
   preStatus |-> None, note |-> <<>>, date |-> <<>>, args |-> <<>>, rows |-> <<>>,
   selected |-> <<>>]

\* class ResumeVersionCreate(BaseModel)
ResumeVersionCreate(name, file_path, content, description, is_default) ==
  [name |-> name, file_path |-> file_path, content |-> content,
   description |-> description, is_default |-> is_default]

\* ResumeVersion(**resume_data.dict()) as the INSERT stores it: id from the
\* sequence, created_at from default=datetime.utcnow.
ResumeVersion(id, resume_data, now) ==
  [id |-> id, name |-> resume_data.name, file_path |-> resume_data.file_path,
   content |-> resume_data.content, description |-> resume_data.description,
   is_default |-> resume_data.is_default, created_at |-> now]

\* Faulty variant: a failed INSERT leaves the cleared flags in place.
AddResumeTxn_NoRollback(rows, resume_data, id, now) ==
  LET cleared == IF resume_data.is_default THEN ClearDefaults(rows) ELSE rows
      row == ResumeVersion(id, resume_data, now)
  IN  IF Len(resume_data.name) > MaxNameLen
        THEN [rows |-> cleared, result |-> "DataError"]
      ELSE IF RowsNamed(cleared, resume_data.name) # {}
        THEN [rows |-> cleared, result |-> "IntegrityError"]
      ELSE [rows |-> Commit(rows, Append(cleared, row)), result |-> "ok"]

\* Faulty variant: the new row is inserted without its is_default flag.
AddResumeTxn_DefaultFlagLost(rows, resume_data, id, now) ==
  LET cleared == IF resume_data.is_default THEN ClearDefaults(rows) ELSE rows
      row == [ResumeVersion(id, resume_data, now) EXCEPT !.is_default = FALSE]
  IN  IF Len(resume_data.name) > MaxNameLen
        THEN [rows |-> Rollback(rows, cleared), result |-> "DataError"]
      ELSE IF RowsNamed(cleared, resume_data.name) # {}
        THEN [rows |-> Rollback(rows, cleared), result |-> "IntegrityError"]
      ELSE [rows |-> Commit(rows, Append(cleared, row)), result |-> "ok"]

\* The unit of work of DatabaseManager.add_resume_version on the table rows:
\* the table afterwards and the outcome.  The INSERT is sent by commit(); the
\* engine rejects a name longer than the column (DataError) and a name that
\* is already there (IntegrityError), both SQLAlchemyError: rollback, re-raise.
AddResumeTxn(rows, resume_data, id, now) ==
  LET cleared == IF resume_data.is_default THEN ClearDefaults(rows) ELSE rows
      row == ResumeVersion(id, resume_data, now)
  IN  IF Len(resume_data.name) > MaxNameLen
        THEN [rows |-> Rollback(rows, cleared), result |-> "DataError"]
      ELSE IF RowsNamed(cleared, resume_data.name) # {}
        THEN [rows |-> Rollback(rows, cleared), result |-> "IntegrityError"]
      ELSE [rows |-> Commit(rows, Append(cleared, row)), result |-> "ok"]

\* DatabaseManager.add_resume_version(resume_data)
add_resume_version(resume_data, now) ==
  LET out == AddResumeTxn(resumes, resume_data, nextResumeId, now) IN
  /\ out.result = "ok" => Len(resumes) < MaxResumes
  /\ resumes' = out.rows
  /\ nextResumeId' = IF out.result = "ok" THEN nextResumeId + 1 ELSE nextResumeId
  /\ sessions' = SessionClose(get_session(sessions))
  /\ last' = Call("add_resume_version", "db", resume_data.name, resume_data.is_default,
                  out.result, IF out.result = "ok" THEN nextResumeId ELSE NULL, resumes)
  /\ UNCHANGED <<apps, nextAppId, txn, read, tables>>

\* handle_call_tool, add_resume_version: the reply for each outcome of the
\* store call.  "unique constraint" is in the text of the engine's
\* duplicate-key error only; any other exception is re-raised and becomes
\* the dispatcher's generic error reply.
AddResumeReply(result) ==
  CASE result = "ok" -> "added"
    [] result = "IntegrityError" -> "already_exists"
    [] OTHER -> "error"

\* handle_call_tool(name = "add_resume_version"): resume_data is built from
\* name, content, description and set_as_default; file_path keeps its default.
call_add_resume_version(name, content, description, set_as_default, now) ==
  LET resume_data == ResumeVersionCreate(name, None, content, description, set_as_default)
      out == AddResumeTxn(resumes, resume_data, nextResumeId, now) IN
  /\ out.result = "ok" => Len(resumes) < MaxResumes
  /\ resumes' = out.rows
  /\ nextResumeId' = IF out.result = "ok" THEN nextResumeId + 1 ELSE nextResumeId
  /\ sessions' = SessionClose(get_session(sessions))
  /\ last' = Call("add_resume_version", "tool", name, set_as_default,
                  AddResumeReply(out.result),
                  IF out.result = "ok" THEN nextResumeId ELSE NULL, resumes)
  /\ UNCHANGED <<apps, nextAppId, txn, read, tables>>

\* Faulty variant: an unknown name leaves the cleared flags in place.
SetDefaultTxn_NoRollback(rows, resume_name) ==
  LET cleared == ClearDefaults(rows)
      found == RowsNamed(cleared, resume_name)
  IN  IF found # {}
        THEN [rows |-> Commit(rows, SetDefaultById(cleared, (CHOOSE r \in found : TRUE).id)),
              result |-> "True"]
        ELSE [rows |-> cleared, result |-> "False"]

\* The unit of work of DatabaseManager.set_resume_as_default.
SetDefaultTxn(rows, resume_name) ==
  LET cleared == ClearDefaults(rows)
      found == RowsNamed(cleared, resume_name)
  IN  IF found # {}
        THEN [rows |-> Commit(rows, SetDefaultById(cleared, (CHOOSE r \in found : TRUE).id)),
              result |-> "True"]
        ELSE [rows |-> Rollback(rows, cleared), result |-> "False"]

\* DatabaseManager.set_resume_as_default(resume_name)
set_resume_as_default(resume_name) ==
  LET out == SetDefaultTxn(resumes, resume_name)
      found == RowsNamed(resumes, resume_name) IN
  /\ resumes' = out.rows
  /\ sessions' = SessionClose(get_session(sessions))
  /\ last' = Call("set_default_resume", "db", resume_name, TRUE, out.result,
                  IF found # {} THEN (CHOOSE r \in found : TRUE).id ELSE NULL, resumes)
  /\ UNCHANGED <<apps, nextResumeId, nextAppId, txn, read, tables>>

\* session.add(resume); session.commit() after resume.is_default = True, for
\* a resume loaded by an earlier, closed session.  The flush sends an UPDATE
\* for the attributes whose value differs from the loaded one, and none when
\* no attribute differs.
FlushDetached(rows, resume) ==
  IF resume.is_default # TRUE THEN SetDefaultById(rows, resume.id) ELSE rows

\* The unit of work of the dispatcher's set_default_resume, for the resume
\* object that get_resume_by_name returned.
ToolSetDefaultTxn(rows, resume) ==
  LET cleared == ClearDefaults(rows)
  IN  Commit(rows, FlushDetached(cleared, resume))

\* handle_call_tool(name = "set_default_resume"): get_resume_by_name in a
\* session of its own; if nothing is found, list_resumes in another; else
\* the update in a session from db.get_session(), closed in finally.
call_set_default_resume(resume_name) ==
  LET found == get_resume_by_name(resume_name) IN
  /\ IF found = {}
       THEN /\ resumes' = resumes
            /\ sessions' = WithSession(WithSession(sessions))
            /\ last' = Call("set_default_resume", "tool", resume_name, TRUE,
                            IF Len(resumes) = 0 THEN "no_resumes" ELSE "not_found",
                            NULL, resumes)
       ELSE \E resume \in found :
            /\ resumes' = ToolSetDefaultTxn(resumes, resume)
            /\ sessions' = SessionClose(get_session(WithSession(sessions)))
            /\ last' = Call("set_default_resume", "tool", resume_name, TRUE,
                            "ok", resume.id, resumes)
  /\ UNCHANGED <<apps, nextResumeId, nextAppId, txn, read, tables>>

\* ------------------------------------------------- application operations
\* The id of the default resume as add_job_application sees it, or NULL:
\* resume_version = self.get_default_resume(); if resume_version: ... .id
DefaultResumeIds ==
  IF get_default_resume = {} THEN {NULL} ELSE {r.id : r \in get_default_resume}

\* Faulty variant: an unknown name leaves the application unbound.
ResolveResume_NoFallback(resume_version_name) ==
  IF Truthy(resume_version_name)
    THEN IF get_resume_by_name(resume_version_name) # {}
           THEN {r.id : r \in get_resume_by_name(resume_version_name)}
           ELSE {NULL}
    ELSE DefaultResumeIds

\* Faulty variant: the default resume is bound even when a name is given.
ResolveResume_DefaultWins(resume_version_name) ==
  IF get_default_resume # {} THEN DefaultResumeIds
  ELSE {r.id : r \in get_resume_by_name(resume_version_name)} \cup {NULL}

\* DatabaseManager.add_job_application, "Handle resume version": the values
\* resume_version_id can get for the given resume_version_name.
ResolveResume(resume_version_name) ==
  IF Truthy(resume_version_name)
    THEN IF get_resume_by_name(resume_version_name) # {}
           THEN {r.id : r \in get_resume_by_name(resume_version_name)}
           ELSE DefaultResumeIds
    ELSE DefaultResumeIds

\* The sessions after "Handle resume version": get_resume_by_name and
\* get_default_resume each open and close a session of their own.
ResolveResumeSessions(n, resume_version_name) ==
  IF Truthy(resume_version_name)
    THEN IF get_resume_by_name(resume_version_name) # {}
           THEN WithSession(n)
           ELSE WithSession(WithSession(n))
    ELSE WithSession(n)

\* class JobApplicationCreate(BaseModel)
JobApplicationCreate(job_title, company_name, application_date, status, notes, resume_version_name) ==
  [job_title |-> job_title, company_name |-> company_name,
   application_date |-> application_date, status |-> status, notes |-> notes,
   resume_version_name |-> resume_version_name]

\* The row DatabaseManager.add_job_application inserts: app_data without
\* resume_version_name, the resolved resume, updated_at from its default.
NewApplication(id, app_data, resume_version_id, now) ==
  [id |-> id, job_title |-> app_data.job_title, company_name |-> app_data.company_name,
   application_date |-> app_data.application_date, status |-> app_data.status,
   notes |-> app_data.notes, resume_version_id |-> resume_version_id,
   updated_at |-> now]

\* The unit of work of DatabaseManager.add_job_application on the table
\* rows, with the resume already resolved: the engine rejects a status
\* longer than the column (DataError): rollback, re-raise.
AddApplicationTxn(rows, app_data, id, resume_version_id, now) ==
  LET added == Append(rows, NewApplication(id, app_data, resume_version_id, now))
  IN  IF Len(app_data.status) > MaxStatusLen
        THEN [rows |-> Rollback(rows, added), result |-> "DataError"]
        ELSE [rows |-> Commit(rows, added), result |-> "ok"]

\* DatabaseManager.add_job_application(app_data)
add_job_application(app_data, now) ==
  /\ Len(apps) < MaxApps
  /\ \E rid \in ResolveResume(app_data.resume_version_name) :
       LET out == AddApplicationTxn(apps, app_data, nextAppId, rid, now) IN
       /\ apps' = out.rows
       /\ nextAppId' = IF out.result = "ok" THEN nextAppId + 1 ELSE nextAppId
       /\ last' = Call("add_job_application", "db", app_data.resume_version_name, FALSE,
                       out.result, IF out.result = "ok" THEN nextAppId ELSE NULL, resumes)
  /\ sessions' = SessionClose(ResolveResumeSessions(get_session(sessions),
                                                    app_data.resume_version_name))
  /\ UNCHANGED <<resumes, nextResumeId, txn, read, tables>>

\* handle_call_tool(name = "add_job_application"): the store call, then the
\* reply built from get_application_with_resume; an exception of the store
\* call becomes the dispatcher's error reply.
call_add_job_application(job_title, company_name, application_date, status, notes, resume_version, now) ==
  LET app_data == JobApplicationCreate(job_title, company_name, application_date,
                                       status, notes, resume_version) IN
  /\ Len(apps) < MaxApps
  /\ \E rid \in ResolveResume(resume_version) :
       LET out == AddApplicationTxn(apps, app_data, nextAppId, rid, now) IN
       /\ apps' = out.rows
       /\ nextAppId' = IF out.result = "ok" THEN nextAppId + 1 ELSE nextAppId
       /\ last' = Call("add_job_application", "tool", resume_version, FALSE,
                       IF out.result = "ok" THEN "added" ELSE "error",
                       IF out.result = "ok" THEN nextAppId ELSE NULL, resumes)
       /\ sessions' =
            LET closed == SessionClose(ResolveResumeSessions(get_session(sessions),
                                                             resume_version))
            IN  IF out.result = "ok" THEN WithSession(closed) ELSE closed
  /\ UNCHANGED <<resumes, nextResumeId, txn, read, tables>>

\* session.query(JobApplication).filter(JobApplication.id == app_id): the matches.
AppsWithId(rows, app_id) == {rows[i] : i \in {j \in DOMAIN rows : rows[j].id = app_id}}

\* f"[{datetime.now().strftime('%Y-%m-%d')}] {notes}"
NoteEntry(date, notes) == <<"[">> \o date \o <<"]", " ">> \o notes

\* Faulty variant: the new entry replaces the notes.
AppendNote_Overwrites(old, date, notes) == NoteEntry(date, notes)
\* application.notes after "if notes:" of update_application_status.
AppendNote(old, date, notes) ==
  IF TruthyText(old) THEN old \o <<"\n">> \o NoteEntry(date, notes)
  ELSE NoteEntry(date, notes)

\* The application object after the assignments of update_application_status.
UpdatedApplication(application, new_status, notes, date) ==
  [application EXCEPT
     !.status = new_status,
     !.notes = IF TruthyText(notes) THEN AppendNote(application.notes, date, notes)
               ELSE application.notes]

\* Faulty variant: the UPDATE also clears the resume binding.
FlushApplication_Unbinds(rows, application, updated, now) ==
  IF updated = application THEN rows
  ELSE [i \in DOMAIN rows |->
          IF rows[i].id = application.id
            THEN [rows[i] EXCEPT !.status = updated.status, !.notes = updated.notes,
                                 !.updated_at = now, !.resume_version_id = NULL]
            ELSE rows[i]]

\* The UPDATE that commit() sends for the changed attributes of application,
\* with updated_at from onupdate=datetime.utcnow; no attribute changed, no
\* UPDATE.
FlushApplication(rows, application, updated, now) ==
  IF updated = application THEN rows
  ELSE [i \in DOMAIN rows |->
          IF rows[i].id = application.id
            THEN [rows[i] EXCEPT !.status = updated.status, !.notes = updated.notes,
                                 !.updated_at = now]
            ELSE rows[i]]

\* Faulty variant: an id that is not there gets a new application.
UpdateStatusTxn_Upsert(rows, app_id, new_status, notes, date, now) ==
  LET found == AppsWithId(rows, app_id) IN
  IF found = {}
    THEN [rows |-> Append(rows, NewApplication(app_id,
                      JobApplicationCreate(JobTitle, Company, 1, new_status, notes, None),
                      NULL, now)),
          result |-> "not_found"]
  ELSE LET application == CHOOSE a \in found : TRUE
           updated == UpdatedApplication(application, new_status, notes, date)
       IN  [rows |-> Commit(rows, FlushApplication(rows, application, updated, now)),
            result |-> "updated"]

\* The unit of work of the dispatcher's update_application_status on the
\* table rows: no application with the id: return inside try, nothing is
\* written; a status longer than the column: the UPDATE fails (DataError),
\* the exception leaves the handler and close() discards the unit of work.
UpdateStatusTxn(rows, app_id, new_status, notes, date, now) ==
  LET found == AppsWithId(rows, app_id) IN
  IF found = {}
    THEN [rows |-> rows, result |-> "not_found"]
  ELSE LET application == CHOOSE a \in found : TRUE
           updated == UpdatedApplication(application, new_status, notes, date)
           flushed == FlushApplication(rows, application, updated, now)
       IN  IF flushed # rows /\ Len(new_status) > MaxStatusLen
             THEN [rows |-> Rollback(rows, flushed), result |-> "error"]
             ELSE [rows |-> Commit(rows, flushed), result |-> "updated"]

\* handle_call_tool(name = "update_application_status")
call_update_application_status(app_id, new_status, notes, date, now) ==
  LET found == AppsWithId(apps, app_id)
      out == UpdateStatusTxn(apps, app_id, new_status, notes, date, now) IN
  /\ \A a \in found : Len(UpdatedApplication(a, new_status, notes, date).notes) <= MaxNotesLen
  /\ apps' = out.rows
  /\ sessions' = SessionClose(get_session(sessions))
  /\ last' = [Call("update_application_status", "tool", new_status, FALSE, out.result,
                   IF out.result = "updated" THEN app_id ELSE NULL, resumes)
                EXCEPT !.preNotes = IF found = {} THEN NoneText
                                    ELSE (CHOOSE a \in found : TRUE).notes,
                       !.preStatus = IF found = {} THEN None
                                     ELSE (CHOOSE a \in found : TRUE).status,
                       !.note = notes, !.date = date, !.args = <<app_id>>]
  /\ UNCHANGED <<resumes, nextResumeId, nextAppId, txn, read, tables>>

\* ------------------------------------------------------------------ queries
\* The letters, for the case folding of ILIKE.
UpperCase == <<"A", "B", "C", "D", "E", "F", "G", "H", "I", "J", "K", "L", "M",
               "N", "O", "P", "Q", "R", "S", "T", "U", "V", "W", "X", "Y", "Z">>
LowerCase == <<"a", "b", "c", "d", "e", "f", "g", "h", "i", "j", "k", "l", "m",
               "n", "o", "p", "q", "r", "s", "t", "u", "v", "w", "x", "y", "z">>
Lower(c) ==
  IF \E i \in DOMAIN UpperCase : UpperCase[i] = c
    THEN LowerCase[CHOOSE i \in DOMAIN UpperCase : UpperCase[i] = c]
    ELSE c
LowerText(t) == [i \in DOMAIN t |-> Lower(t[i])]

\* text LIKE pattern, as the engine evaluates it: % matches any run of
\* characters, _ matches any one character, any other character matches
\* itself.  (The inputs hold no backslash, the escape character.)
RECURSIVE Like(_, _)
Like(text, pattern) ==
  IF pattern = <<>> THEN text = <<>>
  ELSE IF Head(pattern) = "%"
    THEN Like(text, Tail(pattern)) \/ (text # <<>> /\ Like(Tail(text), pattern))
  ELSE IF text = <<>> THEN FALSE
  ELSE IF Head(pattern) = "_" THEN Like(Tail(text), Tail(pattern))
  ELSE Head(pattern) = Head(text) /\ Like(Tail(text), Tail(pattern))

\* column.ilike(pattern): LIKE on the case-folded text and pattern.
ILike(text, pattern) == Like(LowerText(text), LowerText(pattern))

\* f"%{company_name}%": the argument goes into the pattern as it is.
ContainsPattern(arg) == <<"%">> \o arg \o <<"%">>

\* The result lists a SELECT without ORDER BY can produce for the rows at
\* the positions idx: each row once, in an order the engine chooses.
Listings(rows, idx) ==
  LET n == Cardinality(idx) IN
  {[i \in 1..n |-> rows[f[i]]] :
     f \in {g \in [1..n -> idx] : \A a, b \in 1..n : a # b => g[a] # g[b]}}

\* Faulty variant: ascending order.
Descending_Ascending(keys) == \A i, j \in DOMAIN keys : i < j => keys[i] <= keys[j]
\* ORDER BY <column> DESC on the column values of a result list.
Descending(keys) == \A i, j \in DOMAIN keys : i < j => keys[i] >= keys[j]

\* .order_by(JobApplication.application_date.desc()): the listings in
\* which the column does not increase; rows with equal values come in an
\* order the engine chooses.
OrderByApplicationDateDesc(lists) ==
  {s \in lists : Descending([i \in DOMAIN s |-> s[i].application_date])}
\* .order_by(ResumeVersion.created_at.desc())
OrderByCreatedAtDesc(lists) ==
  {s \in lists : Descending([i \in DOMAIN s |-> s[i].created_at])}

\* A query of the store: the outcome is the list it returned.
Query(op, via, args, rows) ==
  [Call(op, via, None, FALSE, "ok", NULL, resumes) EXCEPT !.args = args, !.rows = rows]

\* DatabaseManager.list_resumes()
list_resumes ==
  /\ \E result \in OrderByCreatedAtDesc(Listings(resumes, DOMAIN resumes)) :
       last' = Query("list_resumes", "db", <<>>, result)
  /\ sessions' = WithSession(sessions)
  /\ UNCHANGED <<resumes, apps, nextResumeId, nextAppId, txn, read, tables>>

\* The lists DatabaseManager.get_all_applications_with_resumes can return.
AllApplications == OrderByApplicationDateDesc(Listings(apps, DOMAIN apps))

\* DatabaseManager.get_all_applications_with_resumes()
get_all_applications_with_resumes ==
  /\ \E result \in AllApplications :
       last' = Query("get_all_applications_with_resumes", "db", <<>>, result)
  /\ sessions' = WithSession(sessions)
  /\ UNCHANGED <<resumes, apps, nextResumeId, nextAppId, txn, read, tables>>

\* The lists DatabaseManager.get_applications_by_status can return: the
\* query has no order_by.
ApplicationsByStatus(status) ==
  Listings(apps, {i \in DOMAIN apps : apps[i].status = status})

\* DatabaseManager.get_applications_by_status(status)
get_applications_by_status(status) ==
  /\ \E result \in ApplicationsByStatus(status) :
       last' = Query("get_applications_by_status", "db", <<status>>, result)
  /\ sessions' = WithSession(sessions)
  /\ UNCHANGED <<resumes, apps, nextResumeId, nextAppId, txn, read, tables>>

\* The lists DatabaseManager.search_applications can return.
SearchApplications(company_name, job_title) ==
  LET idx == {i \in DOMAIN apps :
                /\ TruthyText(company_name) =>
                     ILike(apps[i].company_name, ContainsPattern(company_name))
                /\ TruthyText(job_title) =>
                     ILike(apps[i].job_title, ContainsPattern(job_title))}
  IN  OrderByApplicationDateDesc(Listings(apps, idx))

\* DatabaseManager.search_applications(company_name, job_title)
search_applications(company_name, job_title) ==
  /\ \E result \in SearchApplications(company_name, job_title) :
       last' = Query("search_applications", "db", <<company_name, job_title>>, result)
  /\ sessions' = WithSession(sessions)
  /\ UNCHANGED <<resumes, apps, nextResumeId, nextAppId, txn, read, tables>>

\* arguments.get(key, default)
ArgGet(arguments, key, default) ==
  IF key \in DOMAIN arguments THEN arguments[key] ELSE default

\* limit = arguments.get("limit", 10)
DefaultLimit == 10

\* applications[:limit] for an integer limit: a negative limit counts from
\* the end of the list.
SliceTo(list, limit) ==
  LET n == Len(list)
      stop == IF limit < 0 THEN (IF n + limit < 0 THEN 0 ELSE n + limit)
              ELSE (IF limit > n THEN n ELSE limit)
  IN  SubSeq(list, 1, stop)

\* handle_call_tool, get_applications: the lists the chosen store query can
\* return, before the limit.
SelectApplications(status, company_name, job_title) ==
  IF Truthy(status) THEN ApplicationsByStatus(status)
  ELSE IF TruthyText(company_name) \/ TruthyText(job_title)
    THEN SearchApplications(company_name, job_title)
  ELSE AllApplications

\* handle_call_tool(name = "get_applications")
call_get_applications(arguments) ==
  LET status == ArgGet(arguments, "status", None)
      company_name == ArgGet(arguments, "company_name", NoneText)
      job_title == ArgGet(arguments, "job_title", NoneText)
      limit == ArgGet(arguments, "limit", DefaultLimit)
  IN
  /\ \E applications \in SelectApplications(status, company_name, job_title) :
       last' = [Query("get_applications", "tool", arguments, SliceTo(applications, limit))
                  EXCEPT !.selected = applications]
  /\ sessions' = WithSession(sessions)
  /\ UNCHANGED <<resumes, apps, nextResumeId, nextAppId, txn, read, tables>>

\* handle_call_tool(name = "get_resume_content"): db.get_resume_by_name.
call_get_resume_content(resume_name) ==
  /\ last' = Call("get_resume_content", "tool", resume_name, FALSE,
                  IF get_resume_by_name(resume_name) = {} THEN "not_found" ELSE "ok",
                  NULL, resumes)
  /\ sessions' = WithSession(sessions)
  /\ UNCHANGED <<resumes, apps, nextResumeId, nextAppId, txn, read, tables>>

\* ------------------------------------------------------------------- schema
\* Faulty variant: the tables are dropped and created again.
CreateAll_DropsFirst(existing, store) ==
  [tables |-> AllTables, resumes |-> <<>>, apps |-> <<>>]
\* Base.metadata.create_all(bind=engine): checkfirst is on, so only the
\* tables that do not exist are created, and a table that exists keeps
\* its rows.
CreateAll(existing, store) ==
  [tables |-> existing \cup AllTables,
   resumes |-> IF "resume_versions" \in existing THEN store.resumes ELSE <<>>,
   apps |-> IF "job_applications" \in existing THEN store.apps ELSE <<>>]

\* DatabaseManager.create_tables()
create_tables ==
  LET out == CreateAll(tables, [resumes |-> resumes, apps |-> apps]) IN
  /\ tables' = out.tables
  /\ resumes' = out.resumes
  /\ apps' = out.apps
  /\ last' = Call("create_tables", "db", None, FALSE, "ok", NULL, resumes)
  /\ UNCHANGED <<nextResumeId, nextAppId, txn, read, sessions>>

\* ------------------------------------------------------- concurrent callers
\* Each call opens its own session (DatabaseManager.get_session), so its
\* statements run in their own transaction, at the engine's default isolation
\* (READ COMMITTED): a statement sees the committed rows and the
\* transaction's own changes, and waits for a row another open transaction
\* has written.
Procs == 1..NumProcs

\* A caller with no call in progress and nothing in its unit of work.
\* cleared: ids of the rows its bulk UPDATE set to false; setTrue: id of the
\* row its flush set to true; ins: the row it inserted; detached: the resume
\* object it loaded; clean: see CleanCall; app_id: the application an update
\* is for; loaded: the application object it loaded; pending: the row its
\* UPDATE of job_applications wrote.
IdleTxn ==
  [pc |-> "idle", op |-> "none", name |-> None, flag |-> FALSE, cleared |-> {},
   setTrue |-> NULL, ins |-> <<>>, detached |-> <<>>, result |-> "none",
   clean |-> FALSE, app_id |-> NULL, loaded |-> <<>>, pending |-> <<>>]

\* The rows a transaction has written and not yet committed.
Locks(t) == t.cleared \cup (IF t.setTrue = NULL THEN {} ELSE {t.setTrue})

\* resume_versions as the statements of unit of work t see it, and as its
\* commit leaves it.
View(rows, t) ==
  [i \in DOMAIN rows |->
     IF rows[i].id = t.setTrue THEN [rows[i] EXCEPT !.is_default = TRUE]
     ELSE IF rows[i].id \in t.cleared THEN [rows[i] EXCEPT !.is_default = FALSE]
     ELSE rows[i]] \o t.ins

\* The unit of work is over (commit or rollback, then close): its changes
\* and locks are gone, the call's outcome stays.
Finished(t, result) ==
  [IdleTxn EXCEPT !.pc = "done", !.result = result, !.clean = t.clean]

\* What the caller of the check-then-add sequence gets: the resume it
\* created, or, from "except Exception", the failure (printed by
\* test_database_schema, None from setup_default_resume).  Other calls get
\* the outcome of the store call.
SetupReply(op, result) ==
  IF op = "setup_default_resume"
    THEN IF result = "ok" THEN "created" ELSE "failed"
    ELSE result

\* A call that begins when exactly one resume is default, is an add with
\* is_default or a set-default of a resume that exists, and begins while no
\* other call is in progress.
CleanCall(p, op, name, flag) ==
  /\ NumDefaults(resumes) = 1
  /\ \/ op = "add_resume_version" /\ flag
     \/ op \in {"set_resume_as_default", "set_default_resume"} /\ name \in Names(resumes)
  /\ \A r \in Procs \ {p} : txn[r].pc \in {"idle", "done"}

\* A call starts while the calls of the other callers are where they are; a
\* call that shares a moment with it is no longer clean.
ConcBegin(p, op, name, flag) ==
  /\ txn[p].pc \in {"idle", "done"}
  /\ txn' = [q \in Procs |->
       IF q = p
         THEN [IdleTxn EXCEPT
                 !.pc = CASE op = "set_default_resume" -> "lookup"
                          [] op = "setup_default_resume" -> "check"
                          [] op = "add_resume_version" /\ ~flag -> "insert"
                          [] OTHER -> "update",
                 !.op = op, !.name = name, !.flag = flag,
                 !.clean = CleanCall(p, op, name, flag)]
         ELSE [txn[q] EXCEPT !.clean = FALSE]]
  /\ sessions' = get_session(sessions)
  /\ UNCHANGED <<resumes, apps, nextResumeId, nextAppId, last, read, tables>>

\* handle_call_tool, set_default_resume: resume = db.get_resume_by_name(...),
\* in a session of its own that is closed before the update begins.
ConcLookup(p) ==
  /\ txn[p].pc = "lookup"
  /\ LET found == get_resume_by_name(txn[p].name) IN
     IF found = {}
       THEN /\ txn' = [txn EXCEPT ![p] = Finished(txn[p],
                          IF Len(resumes) = 0 THEN "no_resumes" ELSE "not_found")]
            /\ sessions' = WithSession(SessionClose(sessions))
       ELSE \E resume \in found :
            /\ txn' = [txn EXCEPT ![p].pc = "update", ![p].detached = <<resume>>]
            /\ sessions' = get_session(SessionClose(sessions))
  /\ UNCHANGED <<resumes, apps, nextResumeId, nextAppId, last, read, tables>>

\* test_database_schema / setup_default_resume: existing =
\* db.get_resume_by_name("default") in a session of its own; a resume found
\* is returned, else add_resume_version(name="default", is_default=True)
\* begins in a new session.
ConcCheck(p) ==
  /\ txn[p].pc = "check"
  /\ IF get_resume_by_name(txn[p].name) # {}
       THEN /\ txn' = [txn EXCEPT ![p] = Finished(txn[p], "existing")]
            /\ sessions' = SessionClose(sessions)
       ELSE /\ txn' = [txn EXCEPT ![p].pc = "update"]
            /\ sessions' = get_session(SessionClose(sessions))
  /\ UNCHANGED <<resumes, apps, nextResumeId, nextAppId, last, read, tables>>

\* session.query(ResumeVersion).update({"is_default": False}) in an open
\* transaction: every committed row is set to false and stays locked.
ConcBulkUpdate(p) ==
  /\ txn[p].pc = "update"
  /\ \A q \in Procs \ {p} : Locks(txn[q]) \cap {resumes[i].id : i \in DOMAIN resumes} = {}
  /\ txn' = [txn EXCEPT
       ![p].cleared = {resumes[i].id : i \in DOMAIN resumes},
       ![p].pc = CASE txn[p].op \in {"add_resume_version", "setup_default_resume"} -> "insert"
                   [] txn[p].op = "set_resume_as_default" -> "select"
                   [] OTHER -> "flush"]
  /\ UNCHANGED <<resumes, apps, nextResumeId, nextAppId, last, read, sessions, tables>>

\* add_resume_version: session.add(resume) and the INSERT that commit() sends.
ConcInsert(p) ==
  /\ txn[p].pc = "insert"
  /\ \A q \in Procs \ {p} : txn[p].name \notin Names(txn[q].ins)
  /\ IF Len(txn[p].name) > MaxNameLen
       THEN /\ txn' = [txn EXCEPT ![p] = Finished(txn[p], SetupReply(txn[p].op, "DataError"))]
            /\ sessions' = SessionClose(sessions)
            /\ UNCHANGED nextResumeId
     ELSE IF txn[p].name \in Names(resumes)
       THEN /\ txn' = [txn EXCEPT ![p] = Finished(txn[p], SetupReply(txn[p].op, "IntegrityError"))]
            /\ sessions' = SessionClose(sessions)
            /\ UNCHANGED nextResumeId
     ELSE /\ Len(resumes) + Cardinality({q \in Procs : txn[q].ins # <<>>}) < MaxResumes
          /\ txn' = [txn EXCEPT
               ![p].ins = <<ResumeVersion(nextResumeId,
                              ResumeVersionCreate(txn[p].name, None, None, None, txn[p].flag),
                              1)>>,
               ![p].pc = "commit"]
          /\ nextResumeId' = nextResumeId + 1
          /\ UNCHANGED sessions
  /\ UNCHANGED <<resumes, apps, nextAppId, last, read, tables>>

\* set_resume_as_default: the query by name inside the transaction; the row
\* is loaded as the transaction sees it.  No row: rollback, return False.
ConcSelect(p) ==
  /\ txn[p].pc = "select"
  /\ LET found == RowsNamed(View(resumes, txn[p]), txn[p].name) IN
     IF found = {}
       THEN /\ txn' = [txn EXCEPT ![p] = Finished(txn[p], "False")]
            /\ sessions' = SessionClose(sessions)
       ELSE \E resume \in found :
            /\ txn' = [txn EXCEPT ![p].pc = "flush", ![p].detached = <<resume>>]
            /\ UNCHANGED sessions
  /\ UNCHANGED <<resumes, apps, nextResumeId, nextAppId, last, read, tables>>

\* resume.is_default = True and the UPDATE that commit() sends for it, if the
\* loaded value differs.
ConcFlush(p) ==
  /\ txn[p].pc = "flush"
  /\ LET resume == txn[p].detached[1] IN
     IF resume.is_default # TRUE
       THEN /\ \A q \in Procs \ {p} : resume.id \notin Locks(txn[q])
            /\ txn' = [txn EXCEPT ![p].setTrue = resume.id, ![p].pc = "commit"]
       ELSE txn' = [txn EXCEPT ![p].pc = "commit"]
  /\ UNCHANGED <<resumes, apps, nextResumeId, nextAppId, last, read, sessions, tables>>

\* The COMMIT that ends session.commit(), and session.close().
ConcCommit(p) ==
  /\ txn[p].pc = "commit"
  /\ txn[p].op # "update_application_status"
  /\ resumes' = View(resumes, txn[p])
  /\ txn' = [txn EXCEPT ![p] = Finished(txn[p],
               IF txn[p].op = "set_resume_as_default" THEN "True"
               ELSE SetupReply(txn[p].op, "ok"))]
  /\ sessions' = SessionClose(sessions)
  /\ UNCHANGED <<apps, nextResumeId, nextAppId, last, read, tables>>

\* The note caller p gives to update_application_status.
ProcNote(p) == IF p = 1 THEN <<"x">> ELSE <<"y">>

\* The applications a transaction has written and not yet committed.
WrittenIds(t) == {t.pending[i].id : i \in DOMAIN t.pending}

\* handle_call_tool(name = "update_application_status") begins for caller p:
\* session = db.get_session().
UpdBegin(p, app_id, new_status) ==
  /\ txn[p].pc = "idle"
  /\ txn' = [txn EXCEPT ![p] = [IdleTxn EXCEPT !.pc = "load",
                                               !.op = "update_application_status",
                                               !.name = new_status, !.app_id = app_id]]
  /\ sessions' = get_session(sessions)
  /\ UNCHANGED <<resumes, apps, nextResumeId, nextAppId, last, read, tables>>

\* application = session.query(JobApplication).filter(id == app_id).first():
\* the SELECT sees the committed row and takes no lock.  No row: the
\* not-found reply, and finally closes the session.
UpdLoad(p) ==
  /\ txn[p].pc = "load"
  /\ LET found == AppsWithId(apps, txn[p].app_id) IN
     IF found = {}
       THEN /\ txn' = [txn EXCEPT ![p] = Finished(txn[p], "not_found")]
            /\ sessions' = SessionClose(sessions)
       ELSE \E application \in found :
            /\ txn' = [txn EXCEPT ![p].pc = "flush", ![p].loaded = <<application>>]
            /\ UNCHANGED sessions
  /\ UNCHANGED <<resumes, apps, nextResumeId, nextAppId, last, read, tables>>

\* The assignments to application.status and application.notes, computed
\* from the loaded object, and the UPDATE that commit() sends: it sets the
\* attributes that differ from the loaded ones, and updated_at, on the row
\* as it is committed now, after waiting for a transaction that has
\* written the row.
UpdFlush(p, date, now) ==
  /\ txn[p].pc = "flush"
  /\ \A q \in Procs \ {p} : txn[p].app_id \notin WrittenIds(txn[q])
  /\ LET application == txn[p].loaded[1]
         updated == UpdatedApplication(application, txn[p].name, ProcNote(p), date)
         current == CHOOSE a \in AppsWithId(apps, txn[p].app_id) : TRUE
         written == [current EXCEPT
                       !.status = IF updated.status # application.status
                                    THEN updated.status ELSE current.status,
                       !.notes = IF updated.notes # application.notes
                                   THEN updated.notes ELSE current.notes,
                       !.updated_at = now]
     IN  /\ Len(updated.notes) <= MaxNotesLen
         /\ txn' = [txn EXCEPT ![p].pc = "commit",
                               ![p].pending = IF updated = application THEN <<>>
                                              ELSE <<written>>]
  /\ UNCHANGED <<resumes, apps, nextResumeId, nextAppId, last, read, sessions, tables>>

\* The COMMIT that ends session.commit(), the reply, and session.close().
UpdCommit(p) ==
  /\ txn[p].pc = "commit"
  /\ txn[p].op = "update_application_status"
  /\ apps' = [i \in DOMAIN apps |->
                IF apps[i].id \in WrittenIds(txn[p])
                  THEN txn[p].pending[1] ELSE apps[i]]
  /\ txn' = [txn EXCEPT ![p] = Finished(txn[p], "updated")]
  /\ sessions' = SessionClose(sessions)
  /\ UNCHANGED <<resumes, nextResumeId, nextAppId, last, read, tables>>

\* get_default_resume / list_resumes from another session: one SELECT, which
\* sees the committed rows.
ConcRead ==
  /\ read' = [clean |-> \E p \in Procs : txn[p].clean,
              defaults |-> NumDefaults(resumes)]
  /\ sessions' = WithSession(sessions)
  /\ UNCHANGED <<resumes, apps, nextResumeId, nextAppId, last, txn, tables>>

\* ------------------------------------------------------------ specification
\* The store after create_tables() on an empty database.
Init ==
  /\ resumes = <<>>
  /\ apps = <<>>
  /\ nextResumeId = 1
  /\ nextAppId = 1
  /\ last = Call("create_tables", "db", None, FALSE, "ok", NULL, <<>>)
  /\ txn = [p \in Procs |-> IdleTxn]
  /\ read = [clean |-> FALSE, defaults |-> 0]
  /\ sessions = 0
  /\ tables = AllTables

\* Calls arrive one at a time: each action is one whole call.  Spec is the
\* resume store and the creation of applications against it.
Next ==
  \/ \E name \in ResumeNames, is_default \in BOOLEAN :
       add_resume_version(ResumeVersionCreate(name, None, None, None, is_default), 1)
  \/ \E name \in ResumeNames, flag \in BOOLEAN :
       call_add_resume_version(name, None, None, flag, 1)
  \/ \E name \in ResumeNames : set_resume_as_default(name)
  \/ \E name \in ResumeNames : call_set_default_resume(name)
  \/ \E name \in ResumeArgs :
       add_job_application(JobApplicationCreate(JobTitle, Company, 1, "applied",
                                                NoneText, name), 1)
  \/ \E name \in ResumeArgs :
       call_add_job_application(JobTitle, Company, 1, "applied", NoneText, name, 1)

Spec == Init /\ [][Next]_vars

\* SpecNotes is the creation of applications with their first notes and the
\* updates of their status and notes.
NextNotes ==
  \/ \E status \in Statuses, notes \in InitialNotes :
       call_add_job_application(JobTitle, Company, 1, status, notes, None, 1)
  \/ \E app_id \in 1..(MaxApps + 1), status \in Statuses, notes \in NoteArgs, date \in Dates :
       call_update_application_status(app_id, status, notes, date, 2)

SpecNotes == Init /\ [][NextNotes]_vars

\* A database in which no table exists yet.
InitFresh ==
  /\ resumes = <<>>
  /\ apps = <<>>
  /\ nextResumeId = 1
  /\ nextAppId = 1
  /\ last = Call("none", "db", None, FALSE, "ok", NULL, <<>>)
  /\ txn = [p \in Procs |-> IdleTxn]
  /\ read = [clean |-> FALSE, defaults |-> 0]
  /\ sessions = 0
  /\ tables = {}

\* SpecOps is every operation of the store and of the dispatcher, one call
\* at a time, from a fresh database: main() creates the tables before the
\* server takes calls, and create_tables may be called again at any time.
NextOps ==
  \/ create_tables
  \/ /\ tables = AllTables
     /\ \/ \E name \in {"default", "A", LongName}, is_default \in BOOLEAN :
             add_resume_version(ResumeVersionCreate(name, "f", None, None, is_default), 1)
        \/ \E name \in {"A", LongName}, flag \in BOOLEAN :
             call_add_resume_version(name, "cv", None, flag, 1)
        \/ \E name \in {"A", "B"} : set_resume_as_default(name)
        \/ \E name \in {"A", "B"} : call_set_default_resume(name)
        \/ \E name \in {None, "A"} :
             add_job_application(JobApplicationCreate(JobTitle, Company, 1, "applied",
                                                      NoneText, name), 1)
        \/ \E status \in {"applied", LongStatus} :
             call_add_job_application(JobTitle, Company, 1, status, NoneText, None, 1)
        \/ \E app_id \in 1..(MaxApps + 1), status \in {"interviewing", LongStatus},
              notes \in {<<>>, <<"x">>}, date \in Dates :
             call_update_application_status(app_id, status, notes, date, 2)
        \/ list_resumes
        \/ get_all_applications_with_resumes
        \/ get_applications_by_status("applied")
        \/ search_applications(<<"t">>, NoneText)
        \/ call_get_applications([status |-> "applied"])
        \/ call_get_resume_content("A")

SpecOps == InitFresh /\ [][NextOps]_vars

\* The stores the queries are run on: up to MaxRows applications with
\* company names, job titles, dates and statuses from small sets, or up to
\* MaxRows resumes with creation times from a small set.
QCompanies == {<<"T", "c">>, <<"a", "b">>}
QTitles == {<<"D", "e", "v">>, <<"Q", "A">>}
StoredApplications(n) ==
  LET inputs == {JobApplicationCreate(t, c, d, s, NoneText, None) :
                   t \in QTitles, c \in QCompanies, d \in AppDates, s \in Statuses}
  IN  {[i \in 1..n |-> NewApplication(i, f[i], NULL, 1)] : f \in [1..n -> inputs]}
StoredResumes(n) ==
  LET names == <<"default", "A", "B", "C">>
  IN  {[i \in 1..n |-> ResumeVersion(i, ResumeVersionCreate(names[i], None, None, None, FALSE),
                                     created[i])] : created \in [1..n -> Times]}

InitQuery ==
  /\ \E n \in 0..MaxRows :
       \/ apps \in StoredApplications(n) /\ resumes = <<>>
       \/ resumes \in StoredResumes(n) /\ apps = <<>>
  /\ nextResumeId = Len(resumes) + 1
  /\ nextAppId = Len(apps) + 1
  /\ last = Call("none", "db", None, FALSE, "ok", NULL, resumes)
  /\ txn = [p \in Procs |-> IdleTxn]
  /\ read = [clean |-> FALSE, defaults |-> 0]
  /\ sessions = 0
  /\ tables = AllTables

\* SpecList is the listing operations and the search, on every such store.
NextList ==
  \/ list_resumes
  \/ get_all_applications_with_resumes
  \/ \E company_name \in {NoneText, <<"t">>}, job_title \in {NoneText, <<"q">>} :
       search_applications(company_name, job_title)

SpecList == InitQuery /\ [][NextList]_vars

\* Arguments of the search and of the get_applications tool.
CompanyArgs == {NoneText, <<>>, <<"t", "C">>, <<"_">>}
TitleArgs == {NoneText, <<"e", "V">>}
Limits == {-1, 1, 3}
GetApplicationsArgs ==
  LET filters == {[status |-> s, company_name |-> c, job_title |-> t] :
                    s \in {None, "applied"}, c \in {NoneText, <<"t", "C">>},
                    t \in {NoneText, <<"q">>}}
  IN  filters \cup
      {[status |-> f.status, company_name |-> f.company_name, job_title |-> f.job_title,
        limit |-> l] : f \in filters, l \in Limits}

\* SpecQuery is the filtered queries of the store and the get_applications
\* tool, on every such store.
NextQuery ==
  \/ \E company_name \in CompanyArgs, job_title \in TitleArgs :
       search_applications(company_name, job_title)
  \/ \E status \in Statuses : get_applications_by_status(status)
  \/ \E arguments \in GetApplicationsArgs : call_get_applications(arguments)

SpecQuery == InitQuery /\ [][NextQuery]_vars

\* SpecUpdate is update_application_status under callers whose calls
\* overlap: each caller makes one call, with a note of its own, and each
\* action is one statement of one call.  The application is created, with
\* the notes "f", by a call of its own.
NextUpdate ==
  \/ \E status \in Statuses :
       call_add_job_application(JobTitle, Company, 1, status, <<"f">>, None, 1)
  \/ \E p \in Procs, app_id \in 1..(MaxApps + 1), status \in Statuses :
       UpdBegin(p, app_id, status)
  \/ \E p \in Procs : UpdLoad(p)
  \/ \E p \in Procs, date \in Dates : UpdFlush(p, date, 2)
  \/ \E p \in Procs : UpdCommit(p)

SpecUpdate == Init /\ [][NextUpdate]_vars

\* SpecConc is the resume store under callers whose calls overlap: each
\* action is one statement of one call.
NextConc ==
  \/ \E p \in Procs, name \in ResumeNames : ConcBegin(p, "add_resume_version", name, TRUE)
  \/ \E p \in Procs, name \in ResumeNames : ConcBegin(p, "set_resume_as_default", name, TRUE)
  \/ \E p \in Procs, name \in ResumeNames : ConcBegin(p, "set_default_resume", name, TRUE)
  \/ \E p \in Procs : ConcLookup(p)
  \/ \E p \in Procs : ConcBulkUpdate(p)
  \/ \E p \in Procs : ConcInsert(p)
  \/ \E p \in Procs : ConcSelect(p)
  \/ \E p \in Procs : ConcFlush(p)
  \/ \E p \in Procs : ConcCommit(p)
  \/ ConcRead

SpecConc == Init /\ [][NextConc]_vars

\* SpecSetup is the store under callers that each run the check-then-add of
\* the "default" resume (test_database_schema, setup_default_resume), and
\* callers that add a resume of another name.
NextSetup ==
  \/ \E p \in Procs : ConcBegin(p, "setup_default_resume", "default", TRUE)
  \/ \E p \in Procs : ConcBegin(p, "add_resume_version", "A", FALSE)
  \/ \E p \in Procs : ConcCheck(p)
  \/ \E p \in Procs : ConcBulkUpdate(p)
  \/ \E p \in Procs : ConcInsert(p)
  \/ \E p \in Procs : ConcCommit(p)

SpecSetup == Init /\ [][NextSetup]_vars

\* ------------------------------------------------------------------- claims
IsAddResume == last.op = "add_resume_version"
IsSetDefault == last.op = "set_default_resume"
IsAddApplication == last.op = "add_job_application"
IsUpdateStatus == last.op = "update_application_status"
DefaultNames(rows) == {rows[i].name : i \in {j \in DOMAIN rows : rows[j].is_default}}

\* C1: after every add_resume_version and set_default_resume call, made through
\* the store or through the dispatcher, succeeding or failing, at most one
\* resume has is_default = true.
C1_SingleDefault ==
  Cardinality({i \in DOMAIN resumes : resumes[i].is_default}) <= 1

\* A call moved the default from one resume to another.
C1_Witness ==
  /\ last.op \in {"add_resume_version", "set_default_resume"}
  /\ Len(resumes) >= 2
  /\ DefaultNames(last.pre) # {}
  /\ DefaultNames(resumes) # {}
  /\ DefaultNames(resumes) # DefaultNames(last.pre)

\* C2: after set_default_resume(name) reports success, the named resume is
\* default, no other resume is, and get_default_resume returns the named
\* resume; for the store's method and for the dispatcher's handler.
C2_SetDefaultSetsNamed ==
  (IsSetDefault /\ last.result \in {"True", "ok"}) =>
     /\ DefaultNames(resumes) = {last.name}
     /\ {r.name : r \in get_default_resume} = {last.name}

\* C3: a successful add_resume_version appends one row; with is_default = true
\* the new row is the only default, with is_default = false the new row is not
\* default and every earlier row is as it was.
C3_AddResumeDefaultFlag ==
  (IsAddResume /\ last.result \in {"ok", "added"}) =>
     LET n == Len(resumes) IN
     /\ n = Len(last.pre) + 1
     /\ resumes[n].name = last.name
     /\ resumes[n].id = last.id
     /\ \A i \in 1..(n - 1) : resumes[i].name = last.pre[i].name
     /\ IF last.flag
          THEN \A i \in 1..n : resumes[i].is_default <=> (i = n)
          ELSE /\ ~resumes[n].is_default
               /\ \A i \in 1..(n - 1) : resumes[i] = last.pre[i]

\* A resume was added as default while another resume was the default.
C3_Witness ==
  /\ IsAddResume /\ last.result \in {"ok", "added"} /\ last.flag
  /\ DefaultNames(last.pre) # {}
  /\ DefaultNames(resumes) = {last.name}

\* C4: add_resume_version with a name that exists fails with the duplicate-name
\* outcome (IntegrityError from the store, the "already exists" reply from the
\* dispatcher), no other failure has that outcome, and the table is exactly as
\* before the call.
C4_DuplicateRejected ==
  IsAddResume =>
     /\ (last.name \in Names(last.pre)) <=> (last.result \in {"IntegrityError", "already_exists"})
     /\ (last.name \in Names(last.pre)) => resumes = last.pre

\* A duplicate add that asked for the default while another resume was default.
C4_Witness ==
  /\ IsAddResume /\ last.flag
  /\ last.name \in Names(last.pre)
  /\ DefaultNames(last.pre) # {}
  /\ DefaultNames(last.pre) # {last.name}
  /\ DefaultNames(resumes) = DefaultNames(last.pre)

\* C5: set_default_resume with a name no resume has reports that, and leaves
\* every resume's is_default as it was.
C5_SetDefaultUnknownName ==
  (IsSetDefault /\ last.name \notin Names(last.pre)) =>
     /\ last.result \in {"False", "not_found", "no_resumes"}
     /\ resumes = last.pre

\* An unknown name was given while a resume was default.
C5_Witness ==
  /\ IsSetDefault /\ last.name \notin Names(last.pre)
  /\ DefaultNames(last.pre) # {}
  /\ DefaultNames(resumes) = DefaultNames(last.pre)

\* The application the last call created.
NewApp == apps[Len(apps)]
\* The resumes an application's resume_version_id refers to (none for NULL).
BoundResumes(app) ==
  {resumes[i] : i \in {j \in DOMAIN resumes : resumes[j].id = app.resume_version_id}}

\* C8: add_job_application with the name of an existing resume binds that
\* resume, whichever resume is default; with no name it binds the default
\* resume if there is one and leaves resume_version_id NULL if there is none.
C8_ResumeResolution ==
  IsAddApplication =>
     /\ Len(apps) > 0
     /\ NewApp.id = last.id
     /\ (last.name \in Names(resumes)) =>
          {r.name : r \in BoundResumes(NewApp)} = {last.name}
     /\ (last.name \in {None, ""}) =>
          IF DefaultNames(resumes) = {}
            THEN NewApp.resume_version_id = NULL
            ELSE {r.name : r \in BoundResumes(NewApp)} = DefaultNames(resumes)

\* An application was bound to the named resume while another was default.
C8_Witness ==
  /\ IsAddApplication
  /\ last.name \in Names(resumes)
  /\ DefaultNames(resumes) # {}
  /\ DefaultNames(resumes) # {last.name}
  /\ {r.name : r \in BoundResumes(NewApp)} = {last.name}

\* C9: add_job_application with a name no resume has succeeds and binds the
\* default resume if there is one, and leaves the application unbound only
\* if there is none.
C9_UnknownNameFallsBack ==
  (IsAddApplication /\ last.name \notin ({None, ""} \cup Names(resumes))) =>
     /\ last.result \in {"ok", "added"}
     /\ Len(apps) > 0
     /\ NewApp.id = last.id
     /\ IF DefaultNames(resumes) = {}
          THEN NewApp.resume_version_id = NULL
          ELSE {r.name : r \in BoundResumes(NewApp)} = DefaultNames(resumes)

\* An unknown name was given while a resume was default, and that resume
\* was bound.
C9_Witness ==
  /\ IsAddApplication
  /\ last.name \notin ({None, ""} \cup Names(resumes))
  /\ DefaultNames(resumes) # {}
  /\ {r.name : r \in BoundResumes(NewApp)} = DefaultNames(resumes)

\* The application with the given id.
AppWithId(id) == CHOOSE a \in {apps[i] : i \in DOMAIN apps} : a.id = id
\* A notes column as text: NULL reads as no text.
TextOf(notes) == IF notes = NoneText THEN <<>> ELSE notes
IsPrefix(s, t) == Len(s) <= Len(t) /\ SubSeq(t, 1, Len(s)) = s

\* C10: update_application_status on an existing application sets the status;
\* with a non-empty note the notes become the old notes, a newline and
\* "[<date>] note" (just "[<date>] note" if there were none), so the old notes
\* are a prefix of the new; with an empty note the notes are unchanged.
C10_NotesAppended ==
  (IsUpdateStatus /\ last.result = "updated") =>
     LET app == AppWithId(last.id)
         entry == <<"[">> \o last.date \o <<"]", " ">> \o last.note
     IN  /\ app.status = last.name
         /\ IF last.note # <<>>
              THEN /\ app.notes = IF last.preNotes \in {NoneText, <<>>}
                                    THEN entry
                                    ELSE last.preNotes \o <<"\n">> \o entry
                   /\ IsPrefix(TextOf(last.preNotes), app.notes)
              ELSE app.notes = last.preNotes

\* A note was appended to notes that already held an appended note.
C10_Witness ==
  /\ IsUpdateStatus /\ last.result = "updated"
  /\ last.note # <<>>
  /\ Len(TextOf(last.preNotes)) > Len(last.date) + 3
  /\ Len(AppWithId(last.id).notes) > Len(last.preNotes) + Len(last.date) + 3
  /\ AppWithId(last.id).status # last.preStatus

\* C6: once every concurrent add_resume_version(is_default = true) and
\* set-default call has committed or rolled back, at most one resume has
\* is_default = true.
C6_ConcurrentSingleDefault ==
  (\A p \in Procs : txn[p].pc \in {"idle", "done"}) => NumDefaults(resumes) <= 1

\* C7: a read made during or after an add_resume_version(is_default = true)
\* or a set-default of an existing resume, which began when a resume was
\* default, observes exactly one default resume.
C7_ReaderSeesOneDefault ==
  read.clean => read.defaults = 1

Ids(rows) == {rows[i].id : i \in DOMAIN rows}

\* C11: update_application_status with an id no application has replies
\* "not found", leaves every application and every resume as it was,
\* creates no application, and leaves no session open.
C11_UpdateUnknownId ==
  (IsUpdateStatus /\ last.args[1] \notin Ids(last.preApps)) =>
     /\ last.result = "not_found"
     /\ apps = last.preApps
     /\ resumes = last.pre
     /\ sessions = 0

\* An unknown id was given, with a new status and a note, while another
\* application was stored.
C11_Witness ==
  /\ IsUpdateStatus /\ last.args[1] \notin Ids(last.preApps)
  /\ Len(last.preApps) > 0
  /\ last.note # <<>>
  /\ last.name # last.preApps[1].status
  /\ last.result = "not_found"

\* C12: when callers run the check-for-"default"-then-add sequence
\* concurrently, every caller that has finished got the "default" resume
\* back, as the row it created or as the existing row, none got the
\* unique-constraint violation as a failure, and exactly one resume is
\* named "default".
C12_GetOrCreateDefault ==
  \A p \in Procs :
     txn[p].result \in {"created", "existing", "failed"} =>
        /\ txn[p].result \in {"created", "existing"}
        /\ Cardinality(RowsNamed(resumes, "default")) = 1

\* C13: after every completed operation of the store or of the dispatcher,
\* whether it returned normally, returned not-found or raised, no session
\* it opened is still open.
C13_NoOpenSession ==
  sessions = 0

\* An operation ended with an error raised by a statement, after earlier
\* operations had stored a resume and an application.
C13_Witness ==
  /\ last.result \in {"error", "DataError", "IntegrityError"}
  /\ Len(resumes) > 0
  /\ Len(apps) > 0
  /\ sessions = 0

\* C18: create_tables on a database whose tables exist succeeds and leaves
\* every resume and every application as it was; after it every table
\* exists, however often it is called.
C18_CreateTablesIdempotent ==
  last.op = "create_tables" =>
     /\ last.result = "ok"
     /\ tables = AllTables
     /\ resumes = last.pre
     /\ apps = last.preApps

\* create_tables was called on a store that holds a resume and an application.
C18_Witness ==
  /\ last.op = "create_tables"
  /\ Len(last.pre) > 0
  /\ Len(last.preApps) > 0
  /\ resumes = last.pre
  /\ apps = last.preApps

ContainsIgnoreCase(text, sub) ==
  \E i \in 1..(Len(text) - Len(sub) + 1) :
     SubSeq(LowerText(text), i, i + Len(sub) - 1) = LowerText(sub)
\* The ids of a result list.
RowIds(rows) == {rows[i].id : i \in DOMAIN rows}
\* No row comes twice in a result list.
NoDuplicates(rows) == Cardinality(RowIds(rows)) = Len(rows)

\* C14: search_applications returns exactly the applications whose
\* company_name contains the company_name argument, if one is given, and
\* whose job_title contains the job_title argument, if one is given, the
\* case of letters aside; with neither given it returns every application.
C14_SearchIsSubstringMatch ==
  last.op = "search_applications" =>
     /\ NoDuplicates(last.rows)
     /\ RowIds(last.rows) =
          {apps[i].id : i \in {j \in DOMAIN apps :
             /\ last.args[1] # NoneText => ContainsIgnoreCase(apps[j].company_name, last.args[1])
             /\ last.args[2] # NoneText => ContainsIgnoreCase(apps[j].job_title, last.args[2])}}

\* A result list holds a row for every row of the table, each once, and the
\* key does not increase along it.
ListsAllDescending(rows, table, keys) ==
  /\ Len(rows) = Len(table)
  /\ RowIds(rows) = RowIds(table)
  /\ \A i \in DOMAIN rows : \E j \in DOMAIN table : rows[i] = table[j]
  /\ \A i, j \in DOMAIN keys : i < j => keys[i] >= keys[j]

\* C15: get_all_applications_with_resumes returns every application once,
\* application_date not increasing; search_applications returns its matches
\* once each, application_date not increasing; list_resumes returns every
\* resume once, created_at not increasing.
C15_ListingOrder ==
  /\ last.op = "get_all_applications_with_resumes" =>
       ListsAllDescending(last.rows, apps,
                          [i \in DOMAIN last.rows |-> last.rows[i].application_date])
  /\ last.op = "search_applications" =>
       /\ NoDuplicates(last.rows)
       /\ \A i, j \in DOMAIN last.rows :
            i < j => last.rows[i].application_date >= last.rows[j].application_date
  /\ last.op = "list_resumes" =>
       ListsAllDescending(last.rows, resumes,
                          [i \in DOMAIN last.rows |-> last.rows[i].created_at])

\* Every application was listed, and the one stored last, with the later
\* date, came first.
C15_Witness ==
  /\ last.op = "get_all_applications_with_resumes"
  /\ Len(apps) >= 2
  /\ apps[1].application_date < apps[2].application_date
  /\ Len(last.rows) = Len(apps)
  /\ last.rows[1] = apps[2]

\* C16: every application the get_applications tool returns has the status
\* given (if one is given), a company_name that contains the company_name
\* given (if one is given) and a job_title that contains the job_title
\* given (if one is given).
C16_EveryFilterHonoured ==
  last.op = "get_applications" =>
     \A i \in DOMAIN last.rows :
        /\ last.args.status # None => last.rows[i].status = last.args.status
        /\ last.args.company_name # NoneText =>
             ContainsIgnoreCase(last.rows[i].company_name, last.args.company_name)
        /\ last.args.job_title # NoneText =>
             ContainsIgnoreCase(last.rows[i].job_title, last.args.job_title)

\* C17: the get_applications tool returns at most limit applications (10
\* when no limit is given, none when the limit is below 1), and they are
\* the first min(limit, n) entries of the n selected applications.
C17_AtMostLimit ==
  last.op = "get_applications" =>
     LET limit == IF "limit" \in DOMAIN last.args THEN last.args.limit ELSE 10
         n == Len(last.selected)
     IN  /\ Len(last.rows) <= (IF limit < 0 THEN 0 ELSE limit)
         /\ last.rows = SubSeq(last.selected, 1, IF limit < n THEN limit ELSE n)

\* text holds part as a run of consecutive characters.
ContainsText(text, part) ==
  \E i \in 1..(Len(text) - Len(part) + 1) : SubSeq(text, i, i + Len(part) - 1) = part

\* C20: when every caller's update_application_status, each with a note of
\* its own, has committed, the application's notes begin with the notes it
\* was created with and hold the entry of every caller's note.
C20_NoNoteLost ==
  (\A p \in Procs : txn[p].pc = "done" /\ txn[p].result = "updated") =>
     \A i \in DOMAIN apps :
        /\ IsPrefix(<<"f">>, apps[i].notes)
        /\ \A p \in Procs, date \in Dates :
             ContainsText(apps[i].notes, NoteEntry(date, ProcNote(p)))

====
